---- MODULE Spec2Model ----
(***************************************************************************)
(* Model of src/game/animation.rs: the Animation component (a repeating    *)
(* timer, a frame counter and an index into a list of variants) and the    *)
(* four per-frame systems registered by plugin():                          *)
(*   update_animation_timer  -> update_animation_movement                  *)
(*   -> update_animation_atlas -> trigger_step_sound_effect.               *)
(*                                                                         *)
(* Four specifications are given.  SpecAnim drives one Animation object    *)
(* through arbitrary calls of update_timer and update_state.  Spec runs    *)
(* the systems in the order the schedule fixes, on one player entity,      *)
(* with the input, area and spawn changes happening between frames.        *)
(* SpecOpen is Spec with the run_if gate open throughout.  SpecSound runs  *)
(* trigger_step_sound_effect over several Player entities.                 *)
(*                                                                         *)
(* Durations are natural numbers of an abstract time unit.  Indices are    *)
(* 0-based as in the source; a sequence element i is read as seq[i + 1].   *)
(***************************************************************************)
EXTENDS Integers, Sequences, FiniteSets, TLC

\* ------------------------------------------------------------------ bounds
MaxVariants == 3
MaxFrames == 2
MaxInterval == 2
MaxDelta == 2
MaxEntities == 4
MaxPlayers == 3

\* Option<T>: None is the empty sequence, Some(x) the one-element sequence.
None == <<>>

Some(x) == <<x>>

\* --------------------------------------------------------- data (l.109-130)
AnimationState == {"Idling", "Walking"}

Area == {"Outside", "Cave"}

\* AnimationData: frames, interval, state, atlas_index.  The atlas base of
\* a variant is laid out by its position in the list.
AtlasBase(i) == i * MaxFrames

\* The frame counts and intervals the variants are drawn from: no frame, one
\* frame or MaxFrames frames; an interval of one time unit or of MaxInterval.
FrameCounts == {0, 1, MaxFrames}

Intervals == {1, MaxInterval}

AnimationData(i) ==
    [frames : FrameCounts, interval : Intervals,
     state : AnimationState, atlas_index : {AtlasBase(i)}]

\* The list of the variants l[1], ..., l[n] with each atlas base set by its
\* position.
Laid(l) == [i \in DOMAIN l |-> [l[i] EXCEPT !.atlas_index = AtlasBase(i - 1)]]

\* Every variant list of 1..MaxVariants entries: missing tags, repeated tags
\* and zero frame counts included (none of them is checked by the source).
VariantLists ==
    UNION {{Laid(l) : l \in [1..n -> AnimationData(0)]} : n \in 1..MaxVariants}

\* The lists a player is spawned with: one variant per state, in either
\* order, each with at least one frame.
PlayerAnimations ==
    {l \in {Laid(k) : k \in [1..2 -> AnimationData(0)]} :
        /\ \A i \in 1..2 : l[i].frames >= 1
        /\ l[1].state # l[2].state}

\* ------------------------------------------------- Timer (bevy, Repeating)
Timer_new(duration) ==
    [elapsed |-> 0, duration |-> duration, finished |-> FALSE]

Timer_tick(t, delta) ==
    LET e == t.elapsed + delta
        fin == e >= t.duration
    IN  [t EXCEPT !.finished = fin,
                  !.elapsed = IF fin
                              THEN (IF t.duration = 0 THEN 0 ELSE e % t.duration)
                              ELSE e]

Timer_remaining(t) == t.duration - t.elapsed

\* --------------------------------------------------------------- Animation
\* new, starting at the second variant.
new_second(animations) ==
    [timer |-> Timer_new(animations[1].interval), frame |-> 0, current |-> 1,
     animations |-> animations]

\* Animation::new (l.133-140).
new(animations) ==
    [timer |-> Timer_new(animations[1].interval), frame |-> 0, current |-> 0,
     animations |-> animations]

\* Animation::state (l.173-175).
state(self) == self.animations[self.current + 1].state

\* changed, reporting a change on every tick.
changed_always(self) == TRUE

\* Animation::changed (l.169-171).
changed(self) == self.timer.finished

\* Animation::get_atlas_index (l.178-180).
get_atlas_index(self) == self.animations[self.current + 1].atlas_index + self.frame

\* update_timer, advancing the frame without wrapping.
update_timer_nowrap(self, delta) ==
    LET ticked == [self EXCEPT !.timer = Timer_tick(self.timer, delta)]
    IN  IF ~ticked.timer.finished
        THEN [self |-> ticked, panicked |-> FALSE]
        ELSE [self |-> [ticked EXCEPT !.frame = self.frame + 1], panicked |-> FALSE]

\* update_timer, advancing one frame per interval the delta spans.
update_timer_catchup(self, delta) ==
    LET ticked == [self EXCEPT !.timer = Timer_tick(self.timer, delta)]
        frames == self.animations[self.current + 1].frames
        times == (self.timer.elapsed + delta) \div self.timer.duration
    IN  IF ~ticked.timer.finished
        THEN [self |-> ticked, panicked |-> FALSE]
        ELSE IF frames = 0
             THEN [self |-> ticked, panicked |-> TRUE]
             ELSE [self |-> [ticked EXCEPT !.frame = (self.frame + times) % frames],
                   panicked |-> FALSE]

\* Animation::update_timer (l.143-149).  The result carries the object as it
\* is when the call returns or panics; `% 0` panics after the tick was done.
update_timer(self, delta) ==
    LET ticked == [self EXCEPT !.timer = Timer_tick(self.timer, delta)]
        frames == self.animations[self.current + 1].frames
    IN  IF ~ticked.timer.finished
        THEN [self |-> ticked, panicked |-> FALSE]
        ELSE IF frames = 0
             THEN [self |-> ticked, panicked |-> TRUE]
             ELSE [self |-> [ticked EXCEPT !.frame = (self.frame + 1) % frames],
                   panicked |-> FALSE]

\* position, searching from the back of the list (rposition).
position_last(animations, s) ==
    LET hits == {i \in 1..Len(animations) : animations[i].state = s}
    IN  IF hits = {} THEN None
        ELSE Some((CHOOSE i \in hits : \A j \in hits : i >= j) - 1)

\* Iterator::position over the variant list (l.155-157): Some(0-based index
\* of the first variant carrying the tag), or None.
position(animations, s) ==
    LET hits == {i \in 1..Len(animations) : animations[i].state = s}
    IN  IF hits = {} THEN None
        ELSE Some((CHOOSE i \in hits : \A j \in hits : i <= j) - 1)

\* update_state, falling back to the first variant when the tag is missing
\* (unwrap_or(0) in place of unwrap()).
update_state_default(self, s) ==
    IF state(self) = s
    THEN [self |-> self, panicked |-> FALSE]
    ELSE LET pos == position(self.animations, s)
             idx == IF pos = None THEN 0 ELSE pos[1]
             data == self.animations[idx + 1]
             reset == [self EXCEPT !.current = idx,
                                   !.timer = Timer_new(data.interval),
                                   !.frame = 0]
         IN  update_timer(reset, Timer_remaining(reset.timer))

\* update_state, restarting the variant on every call (no comparison with
\* the current state).
update_state_always(self, s) ==
    LET pos == position(self.animations, s)
    IN  IF pos = None
        THEN [self |-> self, panicked |-> TRUE]
        ELSE LET data == self.animations[pos[1] + 1]
                 reset == [self EXCEPT !.current = pos[1],
                                       !.timer = Timer_new(data.interval),
                                       !.frame = 0]
             IN  update_timer(reset, Timer_remaining(reset.timer))

\* update_state, without the re-tick that ends a switch.
update_state_noretick(self, s) ==
    IF state(self) = s
    THEN [self |-> self, panicked |-> FALSE]
    ELSE LET pos == position(self.animations, s)
         IN  IF pos = None
             THEN [self |-> self, panicked |-> TRUE]
             ELSE LET data == self.animations[pos[1] + 1]
                  IN  [self |-> [self EXCEPT !.current = pos[1],
                                             !.timer = Timer_new(data.interval),
                                             !.frame = 0],
                       panicked |-> FALSE]

\* Animation::update_state (l.152-166).  unwrap() panics on None before
\* anything is assigned.
update_state(self, s) ==
    IF state(self) = s
    THEN [self |-> self, panicked |-> FALSE]
    ELSE LET pos == position(self.animations, s)
         IN  IF pos = None
             THEN [self |-> self, panicked |-> TRUE]
             ELSE LET data == self.animations[pos[1] + 1]
                      reset == [self EXCEPT !.current = pos[1],
                                            !.timer = Timer_new(data.interval),
                                            !.frame = 0]
                  IN  update_timer(reset, Timer_remaining(reset.timer))

\* ------------------------------------------------------------------- state
VARIABLES
    animation,      \* the Animation component
    aborted,        \* a call has panicked
    op, arg,        \* the most recent call on the Animation and its argument
    phase,          \* the system that runs next in the frame
    resources,      \* PlayerAssets and State<Area> both exist (the run_if gate)
    player,         \* the player entity is spawned
    intent,         \* MovementController.intent, <<x, y>>
    flip_x,         \* Sprite.flip_x
    atlas,          \* TextureAtlas.index
    area,           \* State<Area>
    last_area,      \* Local<Area> of trigger_step_sound_effect
    sound_entity,   \* Local<Option<Entity>> of trigger_step_sound_effect
    sounds,         \* the live step-sound entities: entity id -> audio source
    others,         \* the Animation components of further Player entities, in
                    \* the order the step query yields them
    run_area,       \* history: the area seen by the previous sound run
    streak          \* history: sound runs since the area last changed between two
                    \* runs, the player Walking in each of them (0 if none, capped at 2)

animVars == <<animation, aborted, op, arg>>
entityVars == <<player, intent, flip_x, atlas, others>>
soundVars == <<last_area, sound_entity, sounds, run_area, streak>>
vars == <<animation, aborted, op, arg, phase, resources, player, intent, flip_x,
          atlas, others, area, last_area, sound_entity, sounds, run_area, streak>>

\* The value the Animation variable holds while no player entity exists.
NoAnimation == new(<<[frames |-> 1, interval |-> 1, state |-> "Idling", atlas_index |-> 0]>>)

\* ------------------------------------------------ specification SpecAnim
\* One Animation, built by Animation::new from any variant list, then driven
\* by any sequence of update_timer and update_state calls.
InitAnim ==
    /\ animation \in {new(l) : l \in VariantLists}
    /\ aborted = FALSE
    /\ op = "new"
    /\ arg = None
    /\ phase = "api"
    /\ resources = TRUE
    /\ player = TRUE
    /\ intent = <<0, 0>>
    /\ flip_x = FALSE
    /\ atlas = 0
    /\ others = <<>>
    /\ area = "Outside"
    /\ last_area = "Outside"
    /\ sound_entity = None
    /\ sounds = <<>>
    /\ run_area = None
    /\ streak = 0

CallUpdateTimer(delta) ==
    /\ phase = "api"
    /\ ~aborted
    /\ LET r == update_timer(animation, delta)
       IN  /\ animation' = r.self
           /\ aborted' = r.panicked
    /\ op' = "update_timer"
    /\ arg' = Some(delta)
    /\ UNCHANGED <<phase, resources, area>>
    /\ UNCHANGED entityVars
    /\ UNCHANGED soundVars

CallUpdateState(s) ==
    /\ phase = "api"
    /\ ~aborted
    /\ LET r == update_state(animation, s)
       IN  /\ animation' = r.self
           /\ aborted' = r.panicked
    /\ op' = "update_state"
    /\ arg' = Some(s)
    /\ UNCHANGED <<phase, resources, area>>
    /\ UNCHANGED entityVars
    /\ UNCHANGED soundVars

NextAnim ==
    \/ \E delta \in 0..MaxDelta : CallUpdateTimer(delta)
    \/ \E s \in AnimationState : CallUpdateState(s)

SpecAnim == InitAnim /\ [][NextAnim]_vars

\* ---------------------------------------------------- specification Spec
\* The state before the first frame: no player entity, no step sound.
Init ==
    /\ animation = NoAnimation
    /\ aborted = FALSE
    /\ op = "new"
    /\ arg = None
    /\ phase = "timer"
    /\ resources \in BOOLEAN
    /\ player = FALSE
    /\ intent = <<0, 0>>
    /\ flip_x = FALSE
    /\ atlas = 0
    /\ others = <<>>
    /\ area \in Area
    /\ last_area \in Area
    /\ sound_entity = None
    /\ sounds = <<>>
    /\ run_area = None
    /\ streak = 0

\* --- what happens between two frames (outside this file) ---
\* The player entity is spawned with its variant list; its sprite shows the
\* first frame of the first variant.
SpawnPlayer(animations) ==
    /\ phase = "timer" /\ ~aborted
    /\ ~player
    /\ player' = TRUE
    /\ animation' = new(animations)
    /\ intent' = <<0, 0>>
    /\ flip_x' = FALSE
    /\ atlas' = animations[1].atlas_index
    /\ UNCHANGED <<aborted, op, arg, phase, resources, area, others>>
    /\ UNCHANGED soundVars

\* The player entity is despawned with all its components.
DespawnPlayer ==
    /\ phase = "timer" /\ ~aborted
    /\ player
    /\ player' = FALSE
    /\ animation' = NoAnimation
    /\ intent' = <<0, 0>>
    /\ flip_x' = FALSE
    /\ atlas' = 0
    /\ UNCHANGED <<aborted, op, arg, phase, resources, area, others>>
    /\ UNCHANGED soundVars

\* The input system records a new movement intent.
RecordInput(x, y) ==
    /\ phase = "timer" /\ ~aborted
    /\ player
    /\ intent # <<x, y>>
    /\ intent' = <<x, y>>
    /\ UNCHANGED <<player, flip_x, atlas, others, phase, resources, area>>
    /\ UNCHANGED animVars
    /\ UNCHANGED soundVars

\* The Area state changes.
AreaTransition(a) ==
    /\ phase = "timer" /\ ~aborted
    /\ area # a
    /\ area' = a
    /\ UNCHANGED <<phase, resources>>
    /\ UNCHANGED animVars
    /\ UNCHANGED entityVars
    /\ UNCHANGED soundVars

\* PlayerAssets / State<Area> are inserted or removed.
SetResources(b) ==
    /\ phase = "timer" /\ ~aborted
    /\ resources # b
    /\ resources' = b
    /\ UNCHANGED <<phase, area>>
    /\ UNCHANGED animVars
    /\ UNCHANGED entityVars
    /\ UNCHANGED soundVars

\* AfterTimer, with the chained systems running whether or not the resources
\* exist.
AfterTimer_ungated == "movement"

\* --- the systems, in schedule order (plugin, l.13-31) ---
\* The system that follows update_animation_timer: the chained systems run
\* only if both resources exist.
AfterTimer == IF resources THEN "movement" ELSE "timer"

\* update_animation_timer (l.53-57).
update_animation_timer(delta) ==
    /\ phase = "timer" /\ ~aborted
    /\ IF player
       THEN LET r == update_timer(animation, delta)
            IN  /\ animation' = r.self
                /\ aborted' = r.panicked
       ELSE UNCHANGED <<animation, aborted>>
    /\ phase' = AfterTimer
    /\ UNCHANGED <<op, arg, resources, area>>
    /\ UNCHANGED entityVars
    /\ UNCHANGED soundVars

\* animation_state, looking at the X component only.
animation_state_x(v) == IF v[1] = 0 THEN "Idling" ELSE "Walking"

\* The state a movement intent maps to (l.43-47).
animation_state(v) == IF v = <<0, 0>> THEN "Idling" ELSE "Walking"

\* facing, with the comparison turned round.
facing_right(v, flip) == IF v[1] # 0 THEN v[1] > 0 ELSE flip

\* The sprite's flip_x after the direction update (l.38-41).
facing(v, flip) == IF v[1] # 0 THEN v[1] < 0 ELSE flip

\* update_animation_movement (l.34-50).
update_animation_movement ==
    /\ phase = "movement" /\ ~aborted
    /\ IF player
       THEN /\ flip_x' = facing(intent, flip_x)
            /\ LET r == update_state(animation, animation_state(intent))
               IN  /\ animation' = r.self
                   /\ aborted' = r.panicked
       ELSE UNCHANGED <<flip_x, animation, aborted>>
    /\ phase' = "atlas"
    /\ UNCHANGED <<op, arg, resources, area, player, intent, atlas, others>>
    /\ UNCHANGED soundVars

\* update_animation_atlas (l.60-66).
update_animation_atlas ==
    /\ phase = "atlas" /\ ~aborted
    /\ IF player /\ changed(animation)
       THEN atlas' = get_atlas_index(animation)
       ELSE UNCHANGED atlas
    /\ phase' = "sound"
    /\ UNCHANGED <<resources, area, player, intent, flip_x, others>>
    /\ UNCHANGED animVars
    /\ UNCHANGED soundVars

\* --- trigger_step_sound_effect (l.68-107) ---
Entities == 1..MaxEntities

\* source, with the outside clip for every area.
source_outside(a) == "run_outside"

\* The audio source selected by the area (l.92-95).
source(a) == IF a = "Outside" THEN "run_outside" ELSE "run_cave"

\* The entities a command queue has reserved by spawning.
Spawned(commands) ==
    {commands[i].entity : i \in {j \in 1..Len(commands) : commands[j].cmd = "spawn"}}

\* The id Commands::spawn hands out: one that names no live entity and none
\* reserved earlier in this run.
fresh(live, commands) ==
    LET free == (Entities \ DOMAIN live) \ Spawned(commands)
    IN  CHOOSE e \in free : \A f \in free : e <= f

\* One command applied to the live step sounds.
apply(live, c) ==
    IF c.cmd = "spawn"
    THEN [e \in DOMAIN live \cup {c.entity} |->
             IF e = c.entity THEN c.source ELSE live[e]]
    ELSE [e \in DOMAIN live \ {c.entity} |-> live[e]]

\* The queued commands applied in order, when the system has run.
RECURSIVE flush(_, _)
flush(live, commands) ==
    IF commands = <<>> THEN live
    ELSE flush(apply(live, Head(commands)), Tail(commands))

\* The Animation components the step query yields (With<Player>, l.72).
step_query == (IF player THEN <<animation>> ELSE <<>>) \o others

\* step_loop, spawning for every Walking player whether or not a sound is
\* tracked already.
RECURSIVE step_loop_respawn(_, _, _, _)
step_loop_respawn(query, st, a, live) ==
    IF query = <<>> THEN st
    ELSE LET anim == Head(query)
             next ==
                 IF state(anim) = "Walking"
                 THEN LET e == fresh(live, st.commands)
                      IN  [sound_entity |-> Some(e),
                           commands |-> Append(st.commands,
                               [cmd |-> "spawn", entity |-> e, source |-> source(a)])]
                 ELSE IF st.sound_entity # None
                      THEN [sound_entity |-> None,
                            commands |-> Append(st.commands,
                                [cmd |-> "despawn", entity |-> st.sound_entity[1]])]
                      ELSE st
         IN  step_loop_respawn(Tail(query), next, a, live)

\* step_loop, dropping the handle of a player that is not Walking without
\* despawning the entity.
RECURSIVE step_loop_forget(_, _, _, _)
step_loop_forget(query, st, a, live) ==
    IF query = <<>> THEN st
    ELSE LET anim == Head(query)
             next ==
                 IF state(anim) = "Walking"
                 THEN IF st.sound_entity # None
                      THEN st
                      ELSE LET e == fresh(live, st.commands)
                           IN  [sound_entity |-> Some(e),
                                commands |-> Append(st.commands,
                                    [cmd |-> "spawn", entity |-> e, source |-> source(a)])]
                 ELSE [sound_entity |-> None, commands |-> st.commands]
         IN  step_loop_forget(Tail(query), next, a, live)

\* The loop over the players (l.83-106); st holds the tracked handle and
\* the commands queued so far.
RECURSIVE step_loop(_, _, _, _)
step_loop(query, st, a, live) ==
    IF query = <<>> THEN st
    ELSE LET anim == Head(query)
             next ==
                 IF state(anim) = "Walking"
                 THEN IF st.sound_entity # None
                      THEN st
                      ELSE LET e == fresh(live, st.commands)
                           IN  [sound_entity |-> Some(e),
                                commands |-> Append(st.commands,
                                    [cmd |-> "spawn", entity |-> e, source |-> source(a)])]
                 ELSE IF st.sound_entity # None
                      THEN [sound_entity |-> None,
                            commands |-> Append(st.commands,
                                [cmd |-> "despawn", entity |-> st.sound_entity[1]])]
                      ELSE st
         IN  step_loop(Tail(query), next, a, live)

\* step_sound, forgetting the handle on an area change without despawning
\* the entity.
step_sound_leak(last, tracked, a, query, live) ==
    IF last # a /\ tracked # None
    THEN [last_area |-> last, sound_entity |-> None, commands |-> <<>>]
    ELSE LET st == step_loop(query, [sound_entity |-> tracked, commands |-> <<>>],
                             a, live)
         IN  [last_area |-> a, sound_entity |-> st.sound_entity,
              commands |-> st.commands]

\* step_sound, never recording the area it has seen.
step_sound_stale(last, tracked, a, query, live) ==
    IF last # a /\ tracked # None
    THEN [last_area |-> last, sound_entity |-> None,
          commands |-> <<[cmd |-> "despawn", entity |-> tracked[1]]>>]
    ELSE LET st == step_loop(query, [sound_entity |-> tracked, commands |-> <<>>],
                             a, live)
         IN  [last_area |-> last, sound_entity |-> st.sound_entity,
              commands |-> st.commands]

\* step_sound, going on to the loop after the despawn of an area change
\* (no early return).
step_sound_noreturn(last, tracked, a, query, live) ==
    LET changed_area == last # a /\ tracked # None
        queued == IF changed_area
                  THEN <<[cmd |-> "despawn", entity |-> tracked[1]]>>
                  ELSE <<>>
        st == step_loop(query,
                        [sound_entity |-> IF changed_area THEN None ELSE tracked,
                         commands |-> queued],
                        a, live)
    IN  [last_area |-> a, sound_entity |-> st.sound_entity, commands |-> st.commands]

\* The body of the system: the Locals and the command queue it ends with.
step_sound(last, tracked, a, query, live) ==
    IF last # a /\ tracked # None
    THEN [last_area |-> last, sound_entity |-> None,
          commands |-> <<[cmd |-> "despawn", entity |-> tracked[1]]>>]
    ELSE LET st == step_loop(query, [sound_entity |-> tracked, commands |-> <<>>],
                             a, live)
         IN  [last_area |-> a, sound_entity |-> st.sound_entity,
              commands |-> st.commands]

\* The player is in the Walking state.
Walking == player /\ state(animation) = "Walking"

trigger_step_sound_effect ==
    /\ phase = "sound" /\ ~aborted
    /\ Cardinality(DOMAIN sounds) + Len(step_query) <= MaxEntities
    /\ LET r == step_sound(last_area, sound_entity, area, step_query, sounds)
       IN  /\ last_area' = r.last_area
           /\ sound_entity' = r.sound_entity
           /\ sounds' = flush(sounds, r.commands)
    /\ run_area' = Some(area)
    /\ streak' = IF ~Walking THEN 0
                 ELSE IF run_area # None /\ run_area # Some(area) THEN 1
                 ELSE IF streak >= 1 THEN 2
                 ELSE 0
    /\ phase' = "timer"
    /\ UNCHANGED <<resources, area>>
    /\ UNCHANGED animVars
    /\ UNCHANGED entityVars

Intents == {-1, 0, 1} \X {-1, 0, 1}

Next ==
    \/ \E l \in PlayerAnimations : SpawnPlayer(l)
    \/ DespawnPlayer
    \/ \E v \in Intents : RecordInput(v[1], v[2])
    \/ \E a \in Area : AreaTransition(a)
    \/ \E b \in BOOLEAN : SetResources(b)
    \/ \E delta \in 0..MaxDelta : update_animation_timer(delta)
    \/ update_animation_movement
    \/ update_animation_atlas
    \/ trigger_step_sound_effect

Spec == Init /\ [][Next]_vars

\* ------------------------------------------------ specification SpecOpen
\* The frames of Spec with both resources present throughout, so that every
\* frame runs all four systems.
InitOpen == Init /\ resources

NextOpen ==
    \/ \E l \in PlayerAnimations : SpawnPlayer(l)
    \/ DespawnPlayer
    \/ \E v \in Intents : RecordInput(v[1], v[2])
    \/ \E a \in Area : AreaTransition(a)
    \/ \E delta \in 0..MaxDelta : update_animation_timer(delta)
    \/ update_animation_movement
    \/ update_animation_atlas
    \/ trigger_step_sound_effect

SpecOpen == InitOpen /\ [][NextOpen]_vars

\* ----------------------------------------------- specification SpecSound
\* trigger_step_sound_effect alone, over any number of Player entities.  The
\* system reads nothing of a player but animation.state(), so the systems
\* that run before it in the frame are taken together as one step that leaves
\* each Player's Animation in either state.
StepList ==
    <<[frames |-> 1, interval |-> 1, state |-> "Idling", atlas_index |-> AtlasBase(0)],
      [frames |-> 1, interval |-> 1, state |-> "Walking", atlas_index |-> AtlasBase(1)]>>

StepAnimations == {update_state(new(StepList), s).self : s \in AnimationState}

StepQueries == UNION {[1..n -> StepAnimations] : n \in 0..MaxPlayers}

InitSound ==
    /\ animation = NoAnimation
    /\ aborted = FALSE
    /\ op = "new"
    /\ arg = None
    /\ phase = "timer"
    /\ resources = TRUE
    /\ player = FALSE
    /\ intent = <<0, 0>>
    /\ flip_x = FALSE
    /\ atlas = 0
    /\ others = <<>>
    /\ area \in Area
    /\ last_area \in Area
    /\ sound_entity = None
    /\ sounds = <<>>
    /\ run_area = None
    /\ streak = 0

\* Players are spawned and despawned and the earlier systems of the frame
\* run: the step query will yield q.
EarlierSystems(q) ==
    /\ phase = "timer" /\ ~aborted
    /\ resources
    /\ ~player
    /\ others' = q
    /\ phase' = "sound"
    /\ UNCHANGED <<player, intent, flip_x, atlas, resources, area>>
    /\ UNCHANGED animVars
    /\ UNCHANGED soundVars

NextSound ==
    \/ \E a \in Area : AreaTransition(a)
    \/ \E q \in StepQueries : EarlierSystems(q)
    \/ trigger_step_sound_effect

SpecSound == InitSound /\ [][NextSound]_vars

\* ================================================================ properties
\* Helpers for the properties.
Current == animation.animations[animation.current + 1]

AllFramesPositive == \A i \in 1..Len(animation.animations) : animation.animations[i].frames >= 1

HasBothStates == \A s \in AnimationState : position(animation.animations, s) # None

\* A step in which the named system ran.
MovementRan == phase = "movement" /\ phase' = "atlas"

AtlasRan == phase = "atlas" /\ phase' = "sound"

SoundRan == phase = "sound" /\ phase' = "timer"

\* A step that is a call update_state(s) with s different from state().
SwitchCall == op' = "update_state" /\ state(animation) # arg'[1]

\* The tracked step sound is alive and plays the clip of area a.
Playing(a) ==
    /\ sound_entity # None
    /\ sound_entity[1] \in DOMAIN sounds
    /\ sounds[sound_entity[1]] = (IF a = "Outside" THEN "run_outside" ELSE "run_cave")

\* C1 (as stated): whenever update_state(s) with s different from state()
\* returns, the frame counter is 0, whatever the frame count of the new
\* variant.
C1_FrameZeroAfterSwitch ==
    [][(SwitchCall /\ ~aborted') => animation'.frame = 0]_vars

\* C2 (as stated): after every run of trigger_step_sound_effect the number of
\* live step sounds is 1 if the player is Walking and the area is the one the
\* previous run saw, and 0 in every other case.
C2_OneSoundIffWalkingInOneArea ==
    [][SoundRan =>
        Cardinality(DOMAIN sounds') =
            IF Walking /\ (run_area = None \/ run_area = Some(area)) THEN 1 ELSE 0]_vars

\* C3: a run of trigger_step_sound_effect that finds the area different from
\* the recorded one while a sound is tracked despawns that sound, empties the
\* handle, and leaves no live sound of the previous area.
C3_AreaChangeDespawns ==
    [][(SoundRan /\ last_area # area /\ sound_entity # None) =>
        /\ sound_entity' = None
        /\ sound_entity[1] \notin DOMAIN sounds'
        /\ \A e \in DOMAIN sounds' : sounds'[e] # source(last_area)]_vars

\* Reached right after such a run: the area of the last run is the current
\* one, yet the recorded area was not updated.
C3_Witness ==
    /\ phase = "timer"
    /\ run_area = Some(area)
    /\ last_area # area
    /\ sound_entity = None
    /\ sounds = <<>>
    /\ Walking

\* C4: once the system has run twice after an area change, the player Walking
\* in both runs and the area unchanged since, a step sound exists and plays
\* the source of the current area.
C4_SoundRestarted ==
    (streak = 2 /\ run_area = Some(area)) => Playing(area)

C4_Witness ==
    /\ streak = 2
    /\ run_area = Some(area)
    /\ last_area = area
    /\ Playing(area)

\* C5: when every variant has at least one frame, frame stays within
\* [0, frames of the current variant), and a timer completion in update_timer
\* at frame = frames - 1 yields frame 0.
C5_FrameInRange ==
    /\ [](AllFramesPositive => (0 <= animation.frame /\ animation.frame < Current.frames))
    /\ [][(op' = "update_timer" /\ AllFramesPositive /\ animation'.timer.finished
           /\ animation.frame = Current.frames - 1) => animation'.frame = 0]_vars

\* Reached when update_timer wraps a variant of two or more frames.
C5_Witness ==
    /\ op = "update_timer"
    /\ AllFramesPositive
    /\ animation.timer.finished
    /\ Current.frames >= 2
    /\ animation.frame = 0

\* C6: a run of update_animation_movement sets flip_x to TRUE for a negative
\* X intent, to FALSE for a positive one, and leaves it unchanged when X is 0.
C6_Facing ==
    [][(MovementRan /\ player) =>
        /\ (intent[1] < 0 => flip_x' = TRUE)
        /\ (intent[1] > 0 => flip_x' = FALSE)
        /\ (intent[1] = 0 => flip_x' = flip_x)]_vars

\* Reached when the sprite, facing left, keeps doing so under a vertical intent.
C6_Witness ==
    /\ phase = "atlas"
    /\ player
    /\ intent[1] = 0 /\ intent[2] # 0
    /\ flip_x

\* C7: after a run of update_animation_movement on a variant list with both
\* states, state() is Idling for the zero intent and Walking for any other.
C7_StateFollowsIntent ==
    (phase \in {"atlas", "sound"} /\ player /\ HasBothStates /\ ~aborted) =>
        state(animation) = (IF intent[1] = 0 /\ intent[2] = 0 THEN "Idling" ELSE "Walking")

C7_Witness ==
    /\ phase = "atlas"
    /\ player /\ HasBothStates /\ ~aborted
    /\ intent[1] = 0 /\ intent[2] # 0
    /\ state(animation) = "Walking"

\* C8: update_animation_atlas writes atlas.index = atlas_index + frame of the
\* current variant if the timer is finished when it runs, and leaves
\* atlas.index unchanged otherwise.
C8_AtlasWrittenIffFinished ==
    [][(AtlasRan /\ player) =>
        atlas' = (IF animation.timer.finished
                  THEN Current.atlas_index + animation.frame
                  ELSE atlas)]_vars

\* Reached when the system has written a frame other than the variant's first.
C8_Witness ==
    /\ phase = "sound"
    /\ player
    /\ animation.timer.finished
    /\ animation.frame > 0
    /\ atlas = Current.atlas_index + animation.frame

\* C9: the current index is a valid index into the variant list.
C9_CurrentValid ==
    0 <= animation.current /\ animation.current < Len(animation.animations)

\* Reached when update_state has switched to the second variant.
C9_Witness ==
    /\ op = "update_state"
    /\ ~aborted
    /\ animation.current = 1

C11_RetickIsNoOp ==
    [][(SwitchCall /\ ~aborted') =>
        /\ animation'.frame = 0
        /\ animation'.timer = Timer_new(Current'.interval)
        /\ ~animation'.timer.finished]_vars

\* C12: update_timer(delta) adds delta to the repeating timer of the active
\* variant.  If the timer completes, frame becomes (frame + 1) mod frames of
\* the current variant, one step however many intervals delta spans, and the
\* timer keeps the remainder; if it does not complete, frame is unchanged.
\* The current index is never changed.
C12_TimerAdvancesOneFrame ==
    [][(op' = "update_timer") =>
        LET total == animation.timer.elapsed + arg'[1]
            duration == animation.timer.duration
        IN  /\ animation'.current = animation.current
            /\ animation'.timer.finished <=> total >= duration
            /\ total < duration =>
                   /\ animation'.frame = animation.frame
                   /\ animation'.timer.elapsed = total
            /\ (total >= duration /\ ~aborted') =>
                   /\ animation'.frame = (animation.frame + 1) % Current.frames
                   /\ animation'.timer.elapsed = total % duration]_vars

\* Reached when a delta of two or more intervals has advanced a variant of two
\* frames to its second frame.
C12_Witness ==
    /\ op = "update_timer"
    /\ ~aborted
    /\ arg[1] >= 2 * animation.timer.duration
    /\ animation.timer.finished
    /\ Current.frames = 2
    /\ animation.frame = 1

\* C15: update_state(s) with s equal to state() changes nothing: frame, the
\* timer (elapsed time and finished flag) and the current index are as before.
C15_SameStateIsNoOp ==
    [][(op' = "update_state" /\ state(animation) = arg'[1]) =>
        /\ animation'.frame = animation.frame
        /\ animation'.timer = animation.timer
        /\ animation'.current = animation.current]_vars

\* Reached when update_state was called with the current state in the middle
\* of an interval (a switch would have left the timer finished).
C15_Witness ==
    /\ op = "update_state"
    /\ ~aborted
    /\ state(animation) = arg[1]
    /\ ~animation.timer.finished
    /\ animation.timer.elapsed > 0

\* C20: when update_state switches and several variants carry the requested
\* tag, the lowest-indexed of them becomes current and the new timer has that
\* variant's interval as its duration.
C20_FirstMatchSelected ==
    [][SwitchCall =>
        \A i \in 1..Len(animation.animations) :
            (/\ animation.animations[i].state = arg'[1]
             /\ \A j \in 1..(i - 1) : animation.animations[j].state # arg'[1]) =>
                /\ animation'.current = i - 1
                /\ animation'.timer.duration = animation.animations[i].interval]_vars

\* Reached when a switch chose the second of three variants although the third
\* carries the same tag with another interval.
C20_Witness ==
    /\ op = "update_state"
    /\ ~aborted
    /\ Len(animation.animations) = 3
    /\ animation.current = 1
    /\ animation.animations[1].state # arg[1]
    /\ animation.animations[2].state = arg[1]
    /\ animation.animations[3].state = arg[1]
    /\ animation.animations[3].interval # animation.animations[2].interval
    /\ animation.timer.duration = animation.animations[2].interval

\* C13: a run of trigger_step_sound_effect that finds the area different from
\* the recorded one while a sound is tracked only despawns that sound: no
\* sound is spawned even if the player is Walking, and the recorded area is
\* left as it was, to be updated by the following run.
C13_AreaChangeFirst ==
    /\ [][(SoundRan /\ last_area # area /\ sound_entity # None) =>
            /\ DOMAIN sounds' = DOMAIN sounds \ {sound_entity[1]}
            /\ sound_entity' = None
            /\ last_area' = last_area]_vars
    /\ [][(SoundRan /\ last_area # area /\ sound_entity = None) =>
            last_area' = area]_vars

\* Reached after the first run that follows an area change with the player
\* Walking: nothing plays and the recorded area is still the old one.
C13_Witness ==
    /\ phase = "timer"
    /\ streak = 1
    /\ Walking
    /\ run_area = Some(area)
    /\ last_area # area
    /\ sound_entity = None
    /\ DOMAIN sounds = {}

\* A run of trigger_step_sound_effect that does not take the area-change
\* branch, with the player entity present.
LoopRan == SoundRan /\ player /\ ~(last_area # area /\ sound_entity # None)

\* C14: in such a run a sound is spawned exactly if the player is Walking and
\* no sound is tracked, and it plays the clip of the current area; a tracked
\* sound is despawned if the player is not Walking; with the player Walking
\* and a sound tracked, nothing is spawned or despawned.
C14_FootstepTransitions ==
    [][LoopRan =>
        /\ (Walking /\ sound_entity = None) =>
               /\ sound_entity' # None
               /\ DOMAIN sounds' = DOMAIN sounds \cup {sound_entity'[1]}
               /\ sound_entity'[1] \notin DOMAIN sounds
               /\ sounds'[sound_entity'[1]] =
                      (IF area = "Outside" THEN "run_outside" ELSE "run_cave")
        /\ ~(Walking /\ sound_entity = None) => DOMAIN sounds' \subseteq DOMAIN sounds
        /\ (~Walking /\ sound_entity # None) =>
               /\ sound_entity' = None
               /\ DOMAIN sounds' = DOMAIN sounds \ {sound_entity[1]}
        /\ (Walking /\ sound_entity # None) =>
               /\ sound_entity' = sound_entity
               /\ sounds' = sounds]_vars

\* Reached when a run has despawned the sound of a player that stopped
\* walking (flip_x shows that it has walked, to the left).
C14_Witness ==
    /\ phase = "timer"
    /\ player /\ ~Walking
    /\ run_area = Some(area)
    /\ last_area = area
    /\ sound_entity = None
    /\ DOMAIN sounds = {}
    /\ flip_x

\* C17: whatever the number and order of Player entities, the live step
\* sounds are exactly the entity in the tracked handle: at most one is alive,
\* and every spawned entity that is no longer tracked has been despawned.
C17_LiveIsTracked ==
    /\ DOMAIN sounds = (IF sound_entity = None THEN {} ELSE {sound_entity[1]})
    /\ Cardinality(DOMAIN sounds) <= 1

\* Reached after a run over three players, Walking, Idling, Walking, that
\* spawned, despawned and spawned again: the second entity is the live one.
C17_Witness ==
    /\ phase = "timer"
    /\ Len(others) = 3
    /\ state(others[1]) = "Walking"
    /\ state(others[2]) = "Idling"
    /\ state(others[3]) = "Walking"
    /\ sound_entity = Some(2)
    /\ DOMAIN sounds = {2}

\* C18: at the end of every run of trigger_step_sound_effect, if a step sound
\* is tracked then the recorded area is the current area and the sound plays
\* the clip of the current area; no live sound plays the clip of another area.
C18_SoundMatchesArea ==
    [][SoundRan =>
        /\ sound_entity' # None =>
               /\ last_area' = area'
               /\ sound_entity'[1] \in DOMAIN sounds'
               /\ sounds'[sound_entity'[1]] =
                      (IF area' = "Outside" THEN "run_outside" ELSE "run_cave")
        /\ \A e \in DOMAIN sounds' :
               sounds'[e] = (IF area' = "Outside" THEN "run_outside" ELSE "run_cave")]_vars

\* Reached after a run in the cave that follows a run outside, with the cave
\* clip playing.
C18_Witness ==
    /\ phase = "timer"
    /\ area = "Cave"
    /\ run_area = Some("Cave")
    /\ last_area = "Cave"
    /\ streak >= 1
    /\ sound_entity # None
    /\ sounds[sound_entity[1]] = "run_cave"

\* C16: when the sprite starts on variant[0].atlas_index and every frame runs
\* update_animation_timer, update_animation_movement and
\* update_animation_atlas in that order, then once update_animation_atlas has
\* run, and until the next frame starts, atlas.index is the atlas_index of the
\* current variant plus frame.
C16_AtlasInSync ==
    (player /\ phase \in {"sound", "timer"}) =>
        atlas = Current.atlas_index + animation.frame

\* Reached at the end of a frame in which the state switched to a variant of
\* two frames: the sprite shows that variant's second frame.
C16_Witness ==
    /\ phase = "sound"
    /\ player
    /\ Current.frames = 2
    /\ animation.timer.elapsed = 0
    /\ animation.timer.duration = 2
    /\ animation.frame = 1
    /\ animation.current = 1
    /\ atlas = Current.atlas_index + 1
    /\ state(animation) = "Walking"

\* A step in which update_animation_timer ran on the player in a frame whose
\* gate is closed: no other system of the frame follows.
ClosedTimerRan ==
    /\ phase = "timer" /\ phase' = "timer"
    /\ ~resources /\ ~resources'
    /\ player /\ player'
    /\ intent' = intent /\ area' = area

\* C19 (as stated): in a frame where the gate is closed and the timer
\* completes, frame advances, atlas.index is not written and is stale
\* (different from atlas_index + frame), and it stays so for as long as the
\* gate is closed.
C19_StaleWhileGateClosed ==
    [][(ClosedTimerRan /\ animation'.timer.finished) =>
        /\ atlas' = atlas
        /\ atlas' # Current'.atlas_index + animation'.frame]_vars

\* C19 (amended): in a frame where the gate is closed the timer is still
\* ticked; when it completes, frame becomes (frame + 1) mod frames and
\* atlas.index is not written, so an index that was in sync becomes stale if
\* the variant has two or more frames.  atlas.index keeps its value until
\* update_animation_atlas runs, in a frame whose gate is open, with the timer
\* finished.
C19_GateClosedLeavesAtlas ==
    /\ [][ClosedTimerRan =>
            /\ atlas' = atlas
            /\ animation'.timer.finished =>
                   animation'.frame = (animation.frame + 1) % Current.frames
            /\ (/\ animation'.timer.finished
                /\ Current.frames >= 2
                /\ atlas = Current.atlas_index + animation.frame) =>
                   atlas' # Current'.atlas_index + animation'.frame]_vars
    /\ [][(player /\ player' /\ atlas' # atlas) =>
            (AtlasRan /\ resources /\ animation.timer.finished)]_vars

\* Reached with the gate closed after the timer has completed: the sprite
\* still shows the frame before.
C19_Witness ==
    /\ phase = "timer"
    /\ ~resources
    /\ player
    /\ animation.timer.finished
    /\ Current.frames >= 2
    /\ atlas # Current.atlas_index + animation.frame

====
